---- MODULE Spec2Model ----
(***************************************************************************)
(* A model of the fetcher client: the event dispatcher                     *)
(* (src/libs/sync-event-dispatcher.ts) and the request pipeline built on   *)
(* it (src/unnamed/part_001, class Fetcher).                               *)
(*                                                                         *)
(* Strings the code takes apart (paths, query strings) are sequences of    *)
(* one-character strings; strings it only compares or concatenates         *)
(* (header names and values, body texts) are TLA+ strings.                 *)
(***************************************************************************)
EXTENDS Integers, Sequences, FiniteSets, TLC

\* ------------------------------------------------------------ bounds

\* Listeners registered at one time, over both events.
MaxListeners == 2
\* Key/value pairs carried by one query-parameter value.
MaxPairs == 2
\* Listeners registered at one time, over both events, in DispatcherSpec.
MaxRegistered == 4

\* ------------------------------------------------------------ sequences

RECURSIVE Flatten(_)
Flatten(ss) == IF ss = <<>> THEN <<>> ELSE Head(ss) \o Flatten(Tail(ss))

RECURSIVE JoinWith(_, _)
JoinWith(ss, sep) ==
  IF ss = <<>> THEN <<>>
  ELSE IF Len(ss) = 1 THEN Head(ss)
  ELSE Head(ss) \o sep \o JoinWith(Tail(ss), sep)

\* A variant that removes the first occurrence only.
RECURSIVE FilterFirst(_, _)
FilterFirst(s, x) ==
  IF s = <<>> THEN <<>>
  ELSE IF Head(s) = x THEN Tail(s)
  ELSE <<Head(s)>> \o FilterFirst(Tail(s), x)

\* Array.prototype.filter with the predicate "element # x".
RECURSIVE FilterOut(_, _)
FilterOut(s, x) ==
  IF s = <<>> THEN <<>>
  ELSE IF Head(s) = x THEN FilterOut(Tail(s), x)
  ELSE <<Head(s)>> \o FilterOut(Tail(s), x)

\* ------------------------------------------------------------ headers

\* A headers value: def = FALSE is JavaScript's undefined; kv is the
\* mapping's entries in insertion order, each <<name, value>>.
NoHeaders == [def |-> FALSE, kv |-> <<>>]
Hdrs(kv) == [def |-> TRUE, kv |-> kv]

HasKey(kv, k) == \E i \in 1..Len(kv) : kv[i][1] = k

\* obj[k] = v on a mapping: an existing key keeps its place.
SetKey(kv, k, v) ==
  IF HasKey(kv, k)
  THEN [i \in 1..Len(kv) |-> IF kv[i][1] = k THEN <<k, v>> ELSE kv[i]]
  ELSE Append(kv, <<k, v>>)

RECURSIVE MergeKV(_, _)
MergeKV(a, b) ==
  IF b = <<>> THEN a ELSE MergeKV(SetKey(a, Head(b)[1], Head(b)[2]), Tail(b))

\* String.prototype.toLowerCase on the header names and values in use.
toLowerCase(s) ==
  CASE s = "Content-Type" -> "content-type"
    [] s = "Authorization" -> "authorization"
    [] s = "Accept" -> "accept"
    [] s = "Digest username=un" -> "digest username=un"
    [] OTHER -> s

\* String.prototype.includes('application/json') on lower-cased values.
includesJson(s) == s \in {"application/json", "application/json; charset=utf-8"}

\* Object.fromEntries(Object.entries(headers || {}).map(([k, v]) =>
\*   [k.toLowerCase(), v]))['content-type']: the last entry whose lower-cased
\* name is content-type wins; "" stands for undefined.
RECURSIVE LookupLower(_, _)
LookupLower(kv, name) ==
  IF kv = <<>> THEN ""
  ELSE IF toLowerCase(kv[Len(kv)][1]) = name THEN kv[Len(kv)][2]
  ELSE LookupLower(SubSeq(kv, 1, Len(kv) - 1), name)

contentType(headers) == LookupLower(headers.kv, "content-type")

\* contentType?.toLowerCase()?.includes('application/json')
DeclaresJson(headers) ==
  contentType(headers) # "" /\ includesJson(toLowerCase(contentType(headers)))

\* ------------------------------------------------------------ URLs

startsWith(s, c) == Len(s) >= 1 /\ s[1] = c
endsWith(s, c) == Len(s) >= 1 /\ s[Len(s)] = c

\* Fetcher.concatURL: baseURL gets a trailing "/" when it has none, and one
\* leading "/" of pathname is dropped.
concatURL(baseURL, pathname) ==
  LET b == IF ~endsWith(baseURL, "/") THEN baseURL \o <<"/">> ELSE baseURL
  IN IF startsWith(pathname, "/") THEN b \o Tail(pathname) ELSE b \o pathname

\* ------------------------------------------------------------ query parameters

Digits == <<"0", "1", "2", "3", "4", "5", "6", "7", "8", "9">>

\* String(n) for an array index n.
IndexToString(n) ==
  IF n < 10 THEN <<Digits[n + 1]>>
  ELSE <<Digits[(n \div 10) + 1], Digits[(n % 10) + 1]>>

\* application/x-www-form-urlencoded byte serialisation of one character.
EncodeChar(c) ==
  CASE c = "=" -> <<"%", "3", "D">>
    [] c = "&" -> <<"%", "2", "6">>
    [] c = "," -> <<"%", "2", "C">>
    [] c = " " -> <<"+">>
    [] OTHER -> <<c>>

Encode(s) == Flatten([i \in 1..Len(s) |-> EncodeChar(s[i])])

\* URLSearchParams.prototype.toString on a list of <<name, value>> pairs.
SearchToString(list) ==
  JoinWith([i \in 1..Len(list) |-> Encode(list[i][1]) \o <<"=">> \o Encode(list[i][2])],
           <<"&">>)

\* A params value is one of the shapes the URLSearchParams constructor takes
\* (FetherConfig.params), or undefined:
\*   [shape |-> "none"]
\*   [shape |-> "string", str  |-> characters]
\*   [shape |-> "record", ents |-> <<[k, def, v], ...>>]   def = FALSE: undefined
\*   [shape |-> "pairs",  list |-> << <<k, v>>, ... >>]
\*   [shape |-> "usp",    list |-> << <<k, v>>, ... >>]    a URLSearchParams
NoParams == [shape |-> "none"]

\* if (params): undefined and the empty string are falsy, objects are truthy.
Truthy(params) ==
  /\ params.shape # "none"
  /\ params.shape = "string" => params.str # <<>>

\* Object.entries(params): the own enumerable properties, as [k, def, v].
\* A string's are its characters by index, an array's its elements by index;
\* an element that is itself an array is later read as a string by
\* URLSearchParams, which joins it with ",".
ObjectEntries(params) ==
  CASE params.shape = "string" ->
         [i \in 1..Len(params.str) |->
            [k |-> IndexToString(i - 1), def |-> TRUE, v |-> <<params.str[i]>>]]
    [] params.shape = "pairs" ->
         [i \in 1..Len(params.list) |->
            [k |-> IndexToString(i - 1), def |-> TRUE,
             v |-> params.list[i][1] \o <<",">> \o params.list[i][2]]]
    [] params.shape = "record" -> params.ents
    [] OTHER -> <<>>

\* A variant that keeps every entry.
KeepAll(ents) == ents

\* .filter(([_, value]) => value !== undefined && value !== null)
RECURSIVE FilterDefined(_)
FilterDefined(ents) ==
  IF ents = <<>> THEN <<>>
  ELSE IF Head(ents).def THEN <<Head(ents)>> \o FilterDefined(Tail(ents))
  ELSE FilterDefined(Tail(ents))

\* new URLSearchParams(Object.fromEntries(entries)): one pair per property.
FromEntries(ents) == [i \in 1..Len(ents) |-> <<ents[i].k, ents[i].v>>]

\* buildRequest, the params branch: the value assigned to urlObj.search
\* (the characters after "?"); <<>> when no query is set.
formatedSearch(params) ==
  IF ~Truthy(params) THEN <<>>
  ELSE IF params.shape = "usp" THEN SearchToString(params.list)
  ELSE SearchToString(FromEntries(FilterDefined(ObjectEntries(params))))

\* ------------------------------------------------------------ bodies

\* A body value:
\*   [t |-> "none",   s |-> ""]     undefined
\*   [t |-> "string", s |-> text]   a string
\*   [t |-> "object", s |-> v]      the structured value {a: v}
\*   [t |-> "binary", s |-> ""]     an ArrayBuffer
\*   [t |-> "bigint", s |-> ""]     the structured value {a: 10n}
NoBody == [t |-> "none", s |-> ""]

\* JSON.stringify(body) throws on a BigInt ("Do not know how to serialize").
StringifyThrows(body) == body.t = "bigint"

\* JSON.stringify(body) when it does not throw: undefined stays undefined, a
\* string gets quoted, an object is written out, an ArrayBuffer (no own
\* enumerable property) gives "{}".
JSONstringify(body) ==
  CASE body.t = "none" -> NoBody
    [] body.t = "string" -> [t |-> "string", s |-> "\"" \o body.s \o "\""]
    [] body.t = "object" -> [t |-> "string", s |-> "{\"a\":\"" \o body.s \o "\"}"]
    [] OTHER -> [t |-> "string", s |-> "{}"]

\* ------------------------------------------------------------ configurations

\* A FetherConfig: method "" is undefined. An InterceptorConfig adds url.
NoConfig == [method |-> "", headers |-> NoHeaders, params |-> NoParams, body |-> NoBody]

\* defaultConfig: only Content-Type: application/json.
defaultConfig ==
  [NoConfig EXCEPT !.headers = Hdrs(<< <<"Content-Type", "application/json">> >>)]

\* {...a, ...b}: every key b has replaces a's, headers included as a whole.
Spread(a, b) ==
  [method  |-> IF b.method # "" THEN b.method ELSE a.method,
   headers |-> IF b.headers.def THEN b.headers ELSE a.headers,
   params  |-> IF b.params.shape # "none" THEN b.params ELSE a.params,
   body    |-> IF b.body.t # "none" THEN b.body ELSE a.body]

\* obj[k] = e on the entries of a params mapping: an existing key keeps its
\* place, and takes the value given, undefined included.
SetEntry(ents, e) ==
  IF \E i \in 1..Len(ents) : ents[i].k = e.k
  THEN [i \in 1..Len(ents) |-> IF ents[i].k = e.k THEN e ELSE ents[i]]
  ELSE Append(ents, e)

RECURSIVE MergeEnts(_, _)
MergeEnts(a, b) ==
  IF b = <<>> THEN a ELSE MergeEnts(SetEntry(a, Head(b)), Tail(b))

\* deepMerge(a, b) of @cross/deepmerge on configurations. The library is not
\* part of the repository's files; this is the merge the specification
\* describes: b's keys over a's, nested mappings (the headers, and the query
\* parameters when both are mappings) merged key by key, and a string, a
\* sequence or a body replaced as a whole by the more specific value. Which
\* objects of a and b the result shares is not described and not modelled.
deepMerge(a, b) ==
  [method  |-> IF b.method # "" THEN b.method ELSE a.method,
   headers |-> IF ~a.headers.def THEN b.headers
               ELSE IF ~b.headers.def THEN a.headers
               ELSE Hdrs(MergeKV(a.headers.kv, b.headers.kv)),
   params  |-> IF b.params.shape = "none" THEN a.params
               ELSE IF a.params.shape = "record" /\ b.params.shape = "record"
               THEN [shape |-> "record", ents |-> MergeEnts(a.params.ents, b.params.ents)]
               ELSE b.params,
   body    |-> IF b.body.t # "none" THEN b.body ELSE a.body]

\* {...mergedFetchConfig, url}
WithUrl(cfg, url) ==
  [url |-> url, method |-> cfg.method, headers |-> cfg.headers,
   params |-> cfg.params, body |-> cfg.body]

\* A variant that spreads the instance configuration over the caller's
\* options: {...options, ...this.config, method}.
VerbOptionsSwapped(verb, config, options) ==
  CASE verb = "get" -> [Spread(options, config) EXCEPT !.method = "GET"]
    [] verb = "post" -> [Spread(options, config) EXCEPT !.method = "POST"]
    [] verb = "head" -> [Spread(options, config) EXCEPT !.method = "HEAD"]
    [] verb = "options" -> [Spread(options, config) EXCEPT !.method = "OPTIONS"]
    [] OTHER -> options

\* The options a verb method hands to request: get, post, head and options
\* spread the instance configuration and the caller's options and set the
\* method; request takes the caller's options as they are.
VerbOptions(verb, config, options) ==
  CASE verb = "get" -> [Spread(config, options) EXCEPT !.method = "GET"]
    [] verb = "post" -> [Spread(config, options) EXCEPT !.method = "POST"]
    [] verb = "head" -> [Spread(config, options) EXCEPT !.method = "HEAD"]
    [] verb = "options" -> [Spread(config, options) EXCEPT !.method = "OPTIONS"]
    [] OTHER -> options

\* ------------------------------------------------------------ listeners

\* The listener functions the model registers. On "request":
\*   "same"  sets event.headers to a new mapping and returns the event
\*   "new"   returns a new configuration, {...req, url: NewPath}
\*   "void"  sets req.headers['Authorization'] and returns nothing; it
\*           throws a TypeError when req.headers is undefined
\*   "throw" throws
\* On "response":
\*   "same"  returns the response it received
\*   "new"   returns resp.text(), which rejects once the body was read
\*   "void"  returns nothing
\*   "throw" throws
Listeners == {"same", "new", "void", "throw"}
EventNames == {"request", "response"}

AuthValue == "Digest username=un"
NewPath == <<"w">>

\* What a request listener does to the configuration object it is given.
RequestEffect(l, arg) ==
  CASE l = "same" -> [arg EXCEPT !.headers = Hdrs(<< <<"Authorization", AuthValue>> >>)]
    [] l = "void" /\ arg.headers.def ->
         [arg EXCEPT !.headers = Hdrs(SetKey(arg.headers.kv, "Authorization", AuthValue))]
    [] OTHER -> arg

\* How a request listener's call settles: it returns its argument ("arg0"),
\* another object ("obj") or nothing ("void"), or it fails ("throw").
RequestSettles(l, arg) ==
  CASE l = "same" -> "arg0"
    [] l = "new" -> "obj"
    [] l = "void" -> IF arg.headers.def THEN "void" ELSE "throw"
    [] OTHER -> "throw"

\* The configuration a request listener returns, when it returns one.
RequestReturns(l, arg) ==
  IF l = "new" THEN [arg EXCEPT !.url = NewPath] ELSE RequestEffect(l, arg)

\* The same three for a response listener and the Response it is given.
ResponseEffect(l, r) ==
  IF l = "new" /\ ~r.bodyUsed THEN [r EXCEPT !.bodyUsed = TRUE] ELSE r

ResponseSettles(l, r) ==
  CASE l = "same" -> "arg0"
    [] l = "new" -> IF r.bodyUsed THEN "throw" ELSE "text"
    [] l = "void" -> "void"
    [] OTHER -> "throw"

\* ------------------------------------------------------------ inputs

\* createFetcher({baseURL: "h//", method: "PUT", headers: {Accept: "text/html"},
\* params: {b: "9", z: "0"}, body: "d"}): ops, the options left after baseURL
\* and the interceptors are taken out.
putConfig ==
  [NoConfig EXCEPT
     !.method = "PUT",
     !.headers = Hdrs(<< <<"Accept", "text/html">> >>),
     !.params = [shape |-> "record",
                 ents |-> <<[k |-> <<"b">>, def |-> TRUE, v |-> <<"9">>],
                            [k |-> <<"z">>, def |-> TRUE, v |-> <<"0">>]>>],
     !.body = [t |-> "string", s |-> "d"]]

\* The clients constructed: createFetcher({baseURL: "h"}), whose config is
\* {}, new Fetcher("h/"), whose config is defaultConfig, and the client of
\* putConfig.
Instances ==
  {[baseURL |-> <<"h">>, config |-> NoConfig],
   [baseURL |-> <<"h", "/">>, config |-> defaultConfig],
   [baseURL |-> <<"h", "/", "/">>, config |-> putConfig]}
Verbs == {"request", "get", "post", "head", "options"}
Paths == {<<"/", "v">>, <<"v">>, <<"/", "/", "v">>}
Statuses == {200, 404, 503}
BodyText == "{\"ok\":true}"

HeaderChoices ==
  {NoHeaders,
   Hdrs(<< <<"Content-Type", "text/plain">> >>),
   Hdrs(<< <<"content-type", "application/json">> >>)}

BodyChoices ==
  {NoBody, [t |-> "string", s |-> "hi"], [t |-> "object", s |-> "x"],
   [t |-> "binary", s |-> ""], [t |-> "bigint", s |-> ""]}

\* The n key/value pairs a=1, b=2, ... and the same pairs in each shape.
Keys == <<"a", "b", "c">>
Vals == <<"1", "2", "3">>
PairList(n) == [i \in 1..n |-> << <<Keys[i]>>, <<Vals[i]>> >>]

PlainString(list) ==
  JoinWith([i \in 1..Len(list) |-> list[i][1] \o <<"=">> \o list[i][2]], <<"&">>)

Shapes == {"string", "record", "pairs", "usp"}

\* String(undefined), what URLSearchParams makes of an undefined value.
UndefinedText == <<"u", "n", "d", "e", "f", "i", "n", "e", "d">>

\* The mapping of the n pairs in which the keys numbered in undef have the
\* value undefined: {a: "1", b: undefined}.
PartialRecord(n, undef) ==
  [shape |-> "record",
   ents |-> [i \in 1..n |->
               IF i \in undef THEN [k |-> <<Keys[i]>>, def |-> FALSE, v |-> UndefinedText]
               ELSE [k |-> <<Keys[i]>>, def |-> TRUE, v |-> <<Vals[i]>>]]]

\* The mapping {a: "", b: undefined}.
EmptyValueRecord ==
  [shape |-> "record",
   ents |-> <<[k |-> <<"a">>, def |-> TRUE, v |-> <<>>],
              [k |-> <<"b">>, def |-> FALSE, v |-> UndefinedText]>>]

ParamsOf(shape, list) ==
  CASE shape = "string" -> [shape |-> "string", str |-> PlainString(list)]
    [] shape = "record" ->
         [shape |-> "record",
          ents |-> [i \in 1..Len(list) |-> [k |-> list[i][1], def |-> TRUE, v |-> list[i][2]]]]
    [] shape = "pairs" -> [shape |-> "pairs", list |-> list]
    [] OTHER -> [shape |-> "usp", list |-> list]

\* The calls made, each <<verb, url, options>>: every verb on every path
\* without options, every verb with a headers and body choice, request and
\* get with query parameters of n pairs in one shape, every verb with a
\* method of the caller's, and get with a mapping of query parameters some
\* of whose values are undefined.
CallInputs ==
  {<<verb, url, NoConfig>> : verb \in Verbs, url \in Paths}
  \cup {<<verb, <<"/", "v">>, [NoConfig EXCEPT !.headers = h, !.body = b]>> :
          verb \in Verbs, h \in HeaderChoices, b \in BodyChoices}
  \cup {<<verb, <<"/", "v">>, [NoConfig EXCEPT !.params = ParamsOf(sh, PairList(n))]>> :
          verb \in {"request", "get"}, sh \in Shapes, n \in 1..MaxPairs}
  \cup {<<verb, <<"/", "v">>, [NoConfig EXCEPT !.method = "DELETE"]>> : verb \in Verbs}
  \cup UNION {{<<"get", <<"v">>, [NoConfig EXCEPT !.params = PartialRecord(n, undef)]>> :
                 undef \in (SUBSET (1..n)) \ {{}}} : n \in 1..MaxPairs}
  \cup {<<"get", <<"v">>, [NoConfig EXCEPT !.params = EmptyValueRecord]>>}

\* ------------------------------------------------------------ state

VARIABLES
  baseURL,   \* Fetcher.baseURL
  config,    \* Fetcher.config
  events,    \* SyncEventDispatcher.events: event name -> listeners, in order
  allocated, \* the event names for which events holds an array
  lastOp,    \* the registration or removal made last, since the last call
  pc,        \* where the call in progress stands
  call,      \* the call in progress: verb, url, options
  merged,    \* request: mergedFetchConfig
  hdrShared, \* data[0].headers is the object mergedFetchConfig.headers
  reqArg,    \* dispatchEvent('request'): data[0], the configuration object
  dlist,     \* dispatchEvent: the array `listeners` being iterated
  alias,     \* that array is still the one events holds for the event
  atStart,   \* the listeners of the event when the last dispatch started
  idx,       \* dispatchEvent: position of the listener awaited
  result,    \* dispatchEvent: result
  reqLog,    \* the "request" listener calls of this call, in order
  req,       \* the Request built and given to fetch
  fetches,   \* number of fetch calls of this call
  resp,      \* the Response received
  respCfg,   \* dispatchEvent('response'): data[1]
  respLog,   \* the "response" listener calls of this call, in order
  outcome,   \* how the promise returned to the caller settled
  otherCall  \* a second call in progress on the client, suspended: its
             \* per-call state, as a record of the variables pc to outcome

vars == <<baseURL, config, events, allocated, lastOp, pc, call, merged, hdrShared,
          reqArg, dlist, alias, atStart, idx, result, reqLog, req, fetches, resp, respCfg,
          respLog, outcome, otherCall>>

instanceVars == <<baseURL, config>>
registryVars == <<events, allocated, lastOp>>
callVars == <<pc, call, merged, hdrShared, reqArg, atStart, idx, result, reqLog,
              req, fetches, resp, respCfg, respLog, outcome>>

NullArg == WithUrl(NoConfig, <<>>)
NoCall == [verb |-> "", url |-> <<>>, options |-> NoConfig]
NoRequest ==
  [built |-> FALSE, url |-> <<>>, search |-> <<>>, method |-> "",
   headers |-> NoHeaders, body |-> NoBody]
NoResponse == [status |-> 0, body |-> "", bodyUsed |-> FALSE]
Pending == [kind |-> "pending", tag |-> "", text |-> "", error |-> ""]
Resolved(r) == [kind |-> "resolved", tag |-> r.tag, text |-> r.text, error |-> ""]
Rejected(e) == [kind |-> "rejected", tag |-> "", text |-> "", error |-> e]

\* lastOp when no listener was registered or removed since the last call.
\* Otherwise it holds the operation, its arguments, and events and allocated
\* as they were before it.
NoOp ==
  [op |-> "none", e |-> "", l |-> "", before |-> [e \in EventNames |-> <<>>], had |-> {}]

\* dispatchEvent line 55: let result = data (the argument array itself).
InitialResult == [tag |-> "data", cfg |-> NullArg, text |-> ""]
\* A variant that returns data, the argument array.
ArgumentArray == [tag |-> "data", cfg |-> NullArg, text |-> ""]

\* dispatchEvent line 52: return data.at(0).
FirstArgument == [tag |-> "arg0", cfg |-> NullArg, text |-> ""]

\* The per-call state of a call not made yet.
NoTask ==
  [pc |-> "idle", call |-> NoCall, merged |-> NoConfig, hdrShared |-> FALSE,
   reqArg |-> NullArg, dlist |-> <<>>, alias |-> FALSE,
   atStart |-> <<>>, idx |-> 0, result |-> InitialResult, reqLog |-> <<>>,
   req |-> NoRequest, fetches |-> 0, resp |-> NoResponse, respCfg |-> NullArg,
   respLog |-> <<>>, outcome |-> Pending]

Init ==
  /\ \E i \in Instances : baseURL = i.baseURL /\ config = i.config
  /\ events = [e \in EventNames |-> <<>>]
  /\ allocated = {}
  /\ lastOp = NoOp
  /\ pc = "idle"
  /\ call = NoCall
  /\ merged = NoConfig
  /\ hdrShared = FALSE
  /\ reqArg = NullArg
  /\ dlist = <<>>
  /\ alias = FALSE
  /\ atStart = <<>>
  /\ idx = 0
  /\ result = InitialResult
  /\ reqLog = <<>>
  /\ req = NoRequest
  /\ fetches = 0
  /\ resp = NoResponse
  /\ respCfg = NullArg
  /\ respLog = <<>>
  /\ outcome = Pending
  /\ otherCall = NoTask

\* ------------------------------------------------------------ dispatcher

\* events[name] is undefined (name is not in allocated) or an array, which
\* may be empty; events[name] = <<>> here whenever it is undefined.

\* dispatchEvent line 51: !listeners || !listeners.length.
NoListeners(e) == e \notin allocated \/ Len(events[e]) = 0

\* A variant whose loop ends at the first listener that fails.
LoopStopsOnFailure(ret, i, list) == ret # "throw" /\ i < Len(list)

\* dispatchEvent lines 57-68: the for-of goes on while the array has an
\* element left, however the listener awaited settled (the catch of line 61
\* swallows a failure).
LoopGoesOn(ret, i, list) == i < Len(list)

\* dispatchEvent line 59, and the catch of line 61:
\*   result = await listener?.apply(null, data) ?? data
\* A returned value becomes the result, undefined makes the result the data
\* array, and a failure leaves the result as it was.
Settle(res, ret, cfg, text) ==
  CASE ret = "arg0" -> [tag |-> "arg0", cfg |-> NullArg, text |-> ""]
    [] ret = "obj" -> [tag |-> "obj", cfg |-> cfg, text |-> ""]
    [] ret = "text" -> [tag |-> "text", cfg |-> NullArg, text |-> text]
    [] ret = "void" -> [tag |-> "data", cfg |-> NullArg, text |-> ""]
    [] OTHER -> res

\* The await of line 59 is over for the last listener call of log.
Settled(log) == [log EXCEPT ![Len(log)].settled = TRUE]

\* The call listener.apply(null, data) of a "request" listener: every
\* listener is given data, the arguments of the dispatch.
RequestCall(l, arg, m, shared) ==
  [arg    |-> RequestEffect(l, arg),
   merged |-> IF l = "void" /\ shared
              THEN [m EXCEPT !.headers = RequestEffect(l, arg).headers] ELSE m,
   shared |-> IF l = "same" THEN FALSE ELSE shared,
   entry  |-> [l |-> l, input |-> arg, ret |-> RequestSettles(l, arg),
               output |-> RequestReturns(l, arg), settled |-> FALSE]]

\* The same for a "response" listener, given data = [resp, config].
ResponseCall(l, r, cfg) ==
  [resp  |-> ResponseEffect(l, r),
   entry |-> [l |-> l, resp |-> r, cfg |-> cfg, ret |-> ResponseSettles(l, r),
              text |-> r.body, settled |-> FALSE]]

\* Whether the dispatch in progress iterates the array of event e.
Dispatching(e) ==
  \/ e = "request" /\ pc = "reqWait"
  \/ e = "response" /\ pc = "respWait"

\* The same for the dispatch of the suspended call.
OtherDispatching(e) ==
  \/ e = "request" /\ otherCall.pc = "reqWait"
  \/ e = "response" /\ otherCall.pc = "respWait"

\* Listeners registered, over both events.
Registered == Len(events["request"]) + Len(events["response"])

\* A variant that registers a listener once only.
PushUnique(list, l) == IF \E i \in 1..Len(list) : list[i] = l THEN list ELSE Append(list, l)

\* Array.prototype.push of line 25.
Push(list, l) == Append(list, l)

\* addEventListener: the event's array is made when there is none, and the
\* listener pushed on it. A dispatch iterating that same array sees the new
\* element.
AddEventListener(e, l) ==
  /\ events' = [events EXCEPT ![e] = Push(@, l)]
  /\ allocated' = allocated \cup {e}
  /\ lastOp' = [op |-> "add", e |-> e, l |-> l, before |-> events,
                had |-> allocated]
  /\ dlist' = IF Dispatching(e) /\ alias THEN Push(dlist, l) ELSE dlist
  /\ otherCall' = [otherCall EXCEPT !.dlist = IF OtherDispatching(e) /\ otherCall.alias
                                       THEN Push(@, l) ELSE @]
  /\ UNCHANGED <<instanceVars, callVars, alias>>

\* removeEventListener(e, l): when events holds an array for e, it is
\* replaced by a filtered copy; a dispatch in progress keeps the array it
\* started with.
RemoveEventListener(e, l) ==
  /\ events' = [events EXCEPT ![e] = IF e \in allocated THEN FilterOut(@, l) ELSE @]
  /\ lastOp' = [op |-> "remove", e |-> e, l |-> l, before |-> events,
                had |-> allocated]
  /\ alias' = IF Dispatching(e) /\ e \in allocated THEN FALSE ELSE alias
  /\ otherCall' = [otherCall EXCEPT !.alias = IF OtherDispatching(e) /\ e \in allocated
                                       THEN FALSE ELSE @]
  /\ UNCHANGED <<instanceVars, callVars, allocated, dlist>>

\* A variant that forgets the listeners of every event: this.events = {}.
RemoveEverything(e) ==
  /\ events' = [x \in EventNames |-> <<>>]
  /\ allocated' = {}
  /\ lastOp' = [op |-> "clear", e |-> e, l |-> "", before |-> events,
                had |-> allocated]
  /\ alias' = FALSE
  /\ otherCall' = [otherCall EXCEPT !.alias = FALSE]
  /\ UNCHANGED <<instanceVars, callVars, dlist>>

\* removeEventListener(e) without a listener: delete events[e].
RemoveAllListeners(e) ==
  /\ events' = [events EXCEPT ![e] = <<>>]
  /\ allocated' = allocated \ {e}
  /\ lastOp' = [op |-> "clear", e |-> e, l |-> "", before |-> events,
                had |-> allocated]
  /\ alias' = IF Dispatching(e) /\ e \in allocated THEN FALSE ELSE alias
  /\ otherCall' = [otherCall EXCEPT !.alias = IF OtherDispatching(e) /\ e \in allocated
                                       THEN FALSE ELSE @]
  /\ UNCHANGED <<instanceVars, callVars, dlist>>

\* ------------------------------------------------------------ request pipeline

\* buildRequest line 104: customConfig, the value the dispatch resolved to:
\* the object a listener returned, data[0], or the array data itself, of
\* which url, headers, params and body are all undefined.
customConfig(res, arg) ==
  CASE res.tag = "obj" -> res.cfg
    [] res.tag = "arg0" -> arg
    [] OTHER -> NullArg

\* A variant whose catch sends the request without a body instead of
\* throwing.
buildRequestLenient(base, cc) ==
  LET json == DeclaresJson(cc.headers)
      formatedbody == IF json /\ ~StringifyThrows(cc.body)
                      THEN JSONstringify(cc.body) ELSE NoBody
      method == IF cc.method = "" THEN "GET" ELSE cc.method
  IN IF formatedbody.t # "none" /\ method \in {"GET", "HEAD"}
     THEN [error |-> "TypeError: Request with GET/HEAD method cannot have body",
           request |-> NoRequest]
     ELSE [error |-> "",
           request |-> [built |-> TRUE, url |-> concatURL(base, cc.url),
                        search |-> formatedSearch(cc.params), method |-> method,
                        headers |-> cc.headers, body |-> formatedbody]]

\* buildRequest lines 106-134 on a configuration object: the Request built,
\* or the error thrown.
buildRequest(base, cc) ==
  LET json == DeclaresJson(cc.headers)
      formatedbody == IF json THEN JSONstringify(cc.body) ELSE NoBody
      method == IF cc.method = "" THEN "GET" ELSE cc.method
  IN IF json /\ StringifyThrows(cc.body)
     THEN [error |-> "Error: body must be json stringify", request |-> NoRequest]
     ELSE IF formatedbody.t # "none" /\ method \in {"GET", "HEAD"}
     THEN [error |-> "TypeError: Request with GET/HEAD method cannot have body",
           request |-> NoRequest]
     ELSE [error |-> "",
           request |-> [built |-> TRUE, url |-> concatURL(base, cc.url),
                        search |-> formatedSearch(cc.params), method |-> method,
                        headers |-> cc.headers, body |-> formatedbody]]

\* buildRequest on the value the "request" dispatch resolved to. When that
\* is the data array, the destructured url is undefined and concatURL
\* throws on pathname.startsWith.
BuildResult(base, res, arg) ==
  IF res.tag = "data"
  THEN [error |-> "TypeError: pathname is undefined", request |-> NoRequest]
  ELSE buildRequest(base, customConfig(res, arg))

\* request, lines 158-160, up to the first await: merge, then dispatch
\* "request" with [{...mergedFetchConfig, url}]; with listeners, the first
\* one is called.
StartCall(verb, url, options) ==
  /\ pc = "idle"
  /\ call' = [verb |-> verb, url |-> url, options |-> options]
  /\ LET m == deepMerge(config, VerbOptions(verb, config, options))
         arg == WithUrl(m, url)
         listeners == events["request"]
     IN IF NoListeners("request")
        THEN /\ merged' = m
             /\ reqArg' = arg
             /\ hdrShared' = m.headers.def
             /\ result' = FirstArgument
             /\ reqLog' = <<>>
             /\ atStart' = <<>>
             /\ pc' = "build"
             /\ UNCHANGED <<dlist, alias, idx>>
        ELSE LET c == RequestCall(listeners[1], arg, m, m.headers.def)
             IN /\ merged' = c.merged
                /\ reqArg' = c.arg
                /\ hdrShared' = c.shared
                /\ result' = InitialResult
                /\ reqLog' = <<c.entry>>
                /\ dlist' = listeners
                /\ alias' = TRUE
                /\ atStart' = listeners
                /\ idx' = 1
                /\ pc' = "reqWait"
  /\ lastOp' = NoOp
  /\ UNCHANGED <<instanceVars, events, allocated, req, fetches, resp, respCfg, respLog,
                 outcome, otherCall>>

\* A variant whose loop does not await: the next listener is called while
\* the call before it is pending.
RequestResumeNoAwait ==
  /\ pc = "reqWait"
  /\ idx < Len(dlist)
  /\ LET c == RequestCall(dlist[idx + 1], reqArg, merged, hdrShared)
     IN /\ merged' = c.merged
        /\ reqArg' = c.arg
        /\ hdrShared' = c.shared
        /\ reqLog' = Append(reqLog, c.entry)
        /\ idx' = idx + 1
  /\ UNCHANGED <<instanceVars, registryVars, pc, call, dlist, alias, result, req, fetches,
                 resp, respCfg, respLog, outcome, atStart, otherCall>>

\* dispatchEvent('request'): the awaited listener settles; the loop calls
\* the next listener of the array or returns.
RequestResume ==
  /\ pc = "reqWait"
  /\ LET e == reqLog[Len(reqLog)]
     IN result' = Settle(result, e.ret, e.output, "")
  /\ IF LoopGoesOn(reqLog[Len(reqLog)].ret, idx, dlist)
     THEN LET c == RequestCall(dlist[idx + 1], reqArg, merged, hdrShared)
          IN /\ merged' = c.merged
             /\ reqArg' = c.arg
             /\ hdrShared' = c.shared
             /\ reqLog' = Append(Settled(reqLog), c.entry)
             /\ idx' = idx + 1
             /\ UNCHANGED <<pc, dlist, alias>>
     ELSE /\ pc' = "build"
          /\ reqLog' = Settled(reqLog)
          /\ dlist' = <<>>
          /\ alias' = FALSE
          /\ idx' = 0
          /\ UNCHANGED <<merged, reqArg, hdrShared>>
  /\ UNCHANGED <<instanceVars, registryVars, call, req, fetches, resp, respCfg, respLog, outcome,
                 atStart, otherCall>>

\* buildRequest after its await (lines 106-134): the Request is built and
\* returned to request, which awaits it (line 160), or the error thrown
\* rejects the call.
Build ==
  /\ pc = "build"
  /\ LET b == BuildResult(baseURL, result, reqArg)
     IN IF b.error # ""
        THEN /\ outcome' = Rejected(b.error)
             /\ pc' = "done"
             /\ UNCHANGED req
        ELSE /\ req' = b.request
             /\ pc' = "built"
             /\ UNCHANGED outcome
  /\ UNCHANGED <<instanceVars, registryVars, call, merged, hdrShared, reqArg, dlist,
                 alias, idx, result, reqLog, fetches, resp, respCfg, respLog, atStart, otherCall>>

\* request after the await of line 160, a job later than the one that built
\* the Request: fetch(req) is called, line 162.
CallFetch ==
  /\ pc = "built"
  /\ fetches' = fetches + 1
  /\ pc' = "fetch"
  /\ UNCHANGED <<instanceVars, registryVars, call, merged, hdrShared, reqArg, dlist,
                 alias, idx, result, reqLog, req, resp, respCfg, respLog, outcome,
                 atStart, otherCall>>

\* A variant that dispatches only successful responses to the listeners.
ResponseListenersOkOnly(r) ==
  IF r.status \in 200..299 /\ ~NoListeners("response") THEN events["response"] ELSE <<>>

\* buildResponse line 143 and dispatchEvent lines 50-51: the listeners a
\* received response is dispatched to, whatever its status.
ResponseListeners(r) == IF NoListeners("response") THEN <<>> ELSE events["response"]

\* dispatchEvent lines 51-52 under buildResponse: without a "response"
\* listener the call resolves with data.at(0), the Response as received.
Unlistened(r) == Resolved(FirstArgument)

\* request lines 163-165: fetch resolves with a response of any status;
\* "response" is dispatched with [resp, {...mergedFetchConfig, url}].
FetchResolve(status) ==
  /\ pc = "fetch"
  /\ LET r == [status |-> status, body |-> BodyText, bodyUsed |-> FALSE]
         cfg == WithUrl(merged, call.url)
         listeners == ResponseListeners(r)
     IN /\ respCfg' = cfg
        /\ IF listeners = <<>>
           THEN /\ resp' = r
                /\ outcome' = Unlistened(r)
                /\ respLog' = <<>>
                /\ atStart' = <<>>
                /\ pc' = "done"
                /\ UNCHANGED <<dlist, alias, idx, result>>
           ELSE LET c == ResponseCall(listeners[1], r, cfg)
                IN /\ resp' = c.resp
                   /\ respLog' = <<c.entry>>
                   /\ result' = InitialResult
                   /\ dlist' = listeners
                   /\ alias' = TRUE
                   /\ atStart' = listeners
                   /\ idx' = 1
                   /\ pc' = "respWait"
                   /\ UNCHANGED outcome
  /\ UNCHANGED <<instanceVars, registryVars, call, merged, hdrShared, reqArg, reqLog, req,
                 fetches, otherCall>>

\* A variant that swallows the failure of fetch.
NetworkFailureSwallowed == Resolved(FirstArgument)

\* How the call settles when fetch rejects: request line 162 has no catch.
NetworkFailure == Rejected("NetworkError")

\* A variant that sends the Request again when fetch rejects.
FetchRejectRetry ==
  /\ pc = "fetch"
  /\ fetches' = fetches + 1
  /\ UNCHANGED <<instanceVars, registryVars, pc, call, merged, hdrShared, reqArg, dlist,
                 alias, idx, result, reqLog, req, resp, respCfg, respLog, outcome,
                 atStart, otherCall>>

\* fetch rejects: the then-callback of line 163 is not run.
FetchReject ==
  /\ pc = "fetch"
  /\ outcome' = NetworkFailure
  /\ pc' = "done"
  /\ UNCHANGED <<instanceVars, registryVars, call, merged, hdrShared, reqArg, dlist,
                 alias, idx, result, reqLog, req, fetches, resp, respCfg, respLog,
                 atStart, otherCall>>

\* dispatchEvent('response'): as RequestResume; the value the loop ends with
\* resolves the call.
ResponseResume ==
  /\ pc = "respWait"
  /\ LET e == respLog[Len(respLog)]
         r == Settle(result, e.ret, NullArg, e.text)
     IN /\ result' = r
        /\ IF LoopGoesOn(e.ret, idx, dlist)
           THEN LET c == ResponseCall(dlist[idx + 1], resp, respCfg)
                IN /\ resp' = c.resp
                   /\ respLog' = Append(Settled(respLog), c.entry)
                   /\ idx' = idx + 1
                   /\ UNCHANGED <<pc, dlist, alias, outcome>>
           ELSE /\ outcome' = Resolved(r)
                /\ pc' = "done"
                /\ respLog' = Settled(respLog)
                /\ dlist' = <<>>
                /\ alias' = FALSE
                /\ idx' = 0
                /\ UNCHANGED resp
  /\ UNCHANGED <<instanceVars, registryVars, call, merged, hdrShared, reqArg, reqLog, req,
                 fetches, respCfg, atStart, otherCall>>

\* The caller has its result; the client is ready for the next call.
Return ==
  /\ pc = "done"
  /\ pc' = "idle"
  /\ call' = NoCall
  /\ merged' = NoConfig
  /\ hdrShared' = FALSE
  /\ reqArg' = NullArg
  /\ result' = InitialResult
  /\ reqLog' = <<>>
  /\ req' = NoRequest
  /\ fetches' = 0
  /\ resp' = NoResponse
  /\ respCfg' = NullArg
  /\ respLog' = <<>>
  /\ outcome' = Pending
  /\ atStart' = <<>>
  /\ UNCHANGED <<instanceVars, registryVars, dlist, alias, idx, otherCall>>

\* One client, one call at a time. Listeners are registered and removed
\* between the calls: the actions above also say what a change made while a
\* dispatch is in progress does (dlist, alias), but Spec, which is about the
\* request pipeline, does not take them then.
Next ==
  \/ pc = "idle" /\ Registered < MaxListeners
       /\ \E e \in EventNames, l \in Listeners : AddEventListener(e, l)
  \/ pc = "idle" /\ \E e \in EventNames, l \in Listeners : RemoveEventListener(e, l)
  \/ pc = "idle" /\ \E e \in EventNames : RemoveAllListeners(e)
  \/ \E c \in CallInputs : StartCall(c[1], c[2], c[3])
  \/ RequestResume
  \/ Build
  \/ CallFetch
  \/ \E status \in Statuses : FetchResolve(status)
  \/ FetchReject
  \/ ResponseResume
  \/ Return

Spec == Init /\ [][Next]_vars

\* The calls of DispatcherSpec.
DispatcherInputs ==
  {<<"request", <<"/", "v">>, NoConfig>>,
   <<"post", <<"v">>, [NoConfig EXCEPT !.headers = Hdrs(<< <<"Content-Type", "text/plain">> >>)]>>}

\* The same client with more listeners and few calls: the dispatcher's
\* registry, and the dispatches of "request" and "response" over it.
DispatcherNext ==
  \/ pc = "idle" /\ Registered < MaxRegistered
       /\ \E e \in EventNames, l \in Listeners : AddEventListener(e, l)
  \/ pc = "idle" /\ \E e \in EventNames, l \in Listeners : RemoveEventListener(e, l)
  \/ pc = "idle" /\ \E e \in EventNames : RemoveAllListeners(e)
  \/ \E c \in DispatcherInputs : StartCall(c[1], c[2], c[3])
  \/ RequestResume
  \/ Build
  \/ CallFetch
  \/ FetchResolve(200)
  \/ FetchReject
  \/ ResponseResume
  \/ Return

DispatcherSpec == Init /\ [][DispatcherNext]_vars

\* The per-call state of the call that is running, as a record.
ThisCall ==
  [pc |-> pc, call |-> call, merged |-> merged, hdrShared |-> hdrShared,
   reqArg |-> reqArg, dlist |-> dlist, alias |-> alias,
   atStart |-> atStart, idx |-> idx, result |-> result, reqLog |-> reqLog,
   req |-> req, fetches |-> fetches, resp |-> resp, respCfg |-> respCfg,
   respLog |-> respLog, outcome |-> outcome]

\* request is async: at each of its awaits the caller, or another call it
\* has made on the same client, runs on. The call that was running is
\* suspended and the other one runs; nothing serialises the two.
SwitchCall ==
  /\ pc # "idle" \/ otherCall.pc # "idle"
  /\ otherCall' = ThisCall
  /\ pc' = otherCall.pc
  /\ call' = otherCall.call
  /\ merged' = otherCall.merged
  /\ hdrShared' = otherCall.hdrShared
  /\ reqArg' = otherCall.reqArg
  /\ dlist' = otherCall.dlist
  /\ alias' = otherCall.alias
  /\ atStart' = otherCall.atStart
  /\ idx' = otherCall.idx
  /\ result' = otherCall.result
  /\ reqLog' = otherCall.reqLog
  /\ req' = otherCall.req
  /\ fetches' = otherCall.fetches
  /\ resp' = otherCall.resp
  /\ respCfg' = otherCall.respCfg
  /\ respLog' = otherCall.respLog
  /\ outcome' = otherCall.outcome
  /\ UNCHANGED <<instanceVars, registryVars>>

\* The listeners and the calls of ConcurrentSpec, on the client made by
\* new Fetcher("h/"), whose config is defaultConfig.
ConcurrentListeners == {"same", "void"}
ConcurrentInputs ==
  {<<"get", <<"v">>, NoConfig>>}

ConcurrentInit == Init /\ baseURL = <<"h", "/">>

\* That client with two calls in progress at a time, and "request"
\* listeners registered, or all removed, at any moment, also while a
\* dispatch is suspended on a listener.
ConcurrentNext ==
  \/ Registered < MaxListeners
       /\ \E l \in ConcurrentListeners : AddEventListener("request", l)
  \/ RemoveAllListeners("request")
  \/ \E c \in ConcurrentInputs : StartCall(c[1], c[2], c[3])
  \/ RequestResume
  \/ Build
  \/ CallFetch
  \/ FetchResolve(200)
  \/ Return
  \/ SwitchCall

ConcurrentSpec == ConcurrentInit /\ [][ConcurrentNext]_vars

\* ------------------------------------------------------------ properties

\* The call has left buildRequest and gone on: its Request was built and
\* given to fetch, or it was rejected.
PastBuild == pc \in {"fetch", "respWait", "done"}
\* The call is over and its fetch had resolved with a response.
DoneWithResponse == pc = "done" /\ resp.status # 0
\* The call is over and its fetch had rejected.
DoneWithoutResponse == pc = "done" /\ fetches = 1 /\ resp.status = 0
\* The configuration the "request" listeners left behind.
Effective == customConfig(result, reqArg)

\* C1: when fetch yields a response, whatever its status, every registered
\* "response" listener is called exactly once, in order, with that response.
C1_EveryStatusReachesListeners ==
  DoneWithResponse =>
    /\ Len(respLog) = Len(events["response"])
    /\ \A i \in 1..Len(respLog) :
         /\ respLog[i].l = events["response"][i]
         /\ respLog[i].resp.status = resp.status
         /\ respLog[i].resp.body = resp.body

C1_Witness ==
  /\ DoneWithResponse
  /\ resp.status = 503
  /\ Len(respLog) = 2
  /\ respLog[1].resp.status = 503

\* C2: with listeners A then B on "request", B is given what A returned, and
\* the Request is built from what B returned.
C2_PipeLaw ==
  /\ \A i \in 2..Len(reqLog) :
       reqLog[i - 1].ret \in {"arg0", "obj"} => reqLog[i].input = reqLog[i - 1].output
  /\ (PastBuild /\ Len(reqLog) >= 1 /\ reqLog[Len(reqLog)].ret \in {"arg0", "obj"}) =>
       LET b == buildRequest(baseURL, reqLog[Len(reqLog)].output)
       IN b.error = "" => req = b.request

\* C3: a "request" listener that returns nothing does not break the call:
\* the Request is built from the configuration it was given, as it left it,
\* and is sent.
C3_VoidListenerKeepsCall ==
  (PastBuild /\ Len(reqLog) >= 1 /\ reqLog[Len(reqLog)].ret = "void") =>
    LET b == buildRequest(baseURL, reqArg)
    IN b.error = "" => (fetches = 1 /\ req = b.request)

\* The configuration as of the last listener call of log that did not fail;
\* first when there is none.
RECURSIVE LastApplied(_, _)
LastApplied(log, first) ==
  IF log = <<>> THEN first
  ELSE IF log[Len(log)].ret = "throw" THEN LastApplied(SubSeq(log, 1, Len(log) - 1), first)
  ELSE log[Len(log)].output

\* C4: a "request" listener that throws does not abort the call: the Request
\* is built from the configuration as of the last listener that succeeded
\* (the merged configuration when none did) and is sent.
C4_ThrowingListenerKeepsCall ==
  (/\ PastBuild
   /\ \E i \in 1..Len(reqLog) : reqLog[i].ret = "throw"
   /\ \A i \in 1..Len(reqLog) : reqLog[i].l # "void") =>
    LET b == buildRequest(baseURL, LastApplied(reqLog, reqLog[1].input))
    IN b.error = "" => (fetches = 1 /\ req = b.request /\ outcome.kind # "rejected")

\* C5: without a "response" listener, a response of status 200-299 resolves
\* the call with the body parsed as JSON and any other status rejects it
\* with the response.
C5_DefaultByStatus ==
  (DoneWithResponse /\ respLog = <<>>) =>
    IF resp.status \in 200..299
    THEN outcome.kind = "resolved" /\ outcome.tag = "json"
    ELSE outcome.kind = "rejected"

\* What the code does instead: without a "response" listener, a response of
\* any status resolves the call with the Response itself, its body unread.
RawResponseForEveryStatus ==
  (DoneWithResponse /\ respLog = <<>>) =>
    /\ outcome.kind = "resolved"
    /\ outcome.tag = "arg0"
    /\ ~resp.bodyUsed

\* C6: when fetch rejects, the call rejects with that failure and no
\* "response" listener is called.
C6_NetworkFailureRejects ==
  DoneWithoutResponse =>
    /\ outcome.kind = "rejected"
    /\ outcome.error = "NetworkError"
    /\ respLog = <<>>

C6_Witness ==
  /\ DoneWithoutResponse
  /\ events["response"] # <<>>
  /\ outcome.kind = "rejected"

\* C7: a get or head call given a body is still built and sent, and its
\* Request carries no body.
C7_GetSuppressesBody ==
  (/\ PastBuild
   /\ call.verb \in {"get", "head"}
   /\ call.options.body.t \in {"string", "object", "binary"}
   /\ reqLog = <<>>) =>
    (fetches = 1 /\ req.built /\ req.body.t = "none")

\* C8: the same pairs given as query parameters in any of the four shapes
\* give the query string of exactly those pairs.
C8_ShapesAgree ==
  \A sh \in Shapes, n \in 1..MaxPairs :
    (req.built /\ call.options.params = ParamsOf(sh, PairList(n))) =>
      req.search = SearchToString(PairList(n))

\* C9: a structured body is written as JSON exactly when the headers declare
\* a JSON content type; any other body reaches the Request unchanged.
C9_BodyHandling ==
  req.built =>
    IF Effective.body.t = "object" /\ DeclaresJson(Effective.headers)
    THEN req.body = JSONstringify(Effective.body)
    ELSE req.body = Effective.body

\* C10: a body that cannot be written as JSON, under headers that declare a
\* JSON content type, rejects the call before any fetch, and no "response"
\* listener is called.
C10_UnserializableRejects ==
  (PastBuild /\ StringifyThrows(Effective.body) /\ DeclaresJson(Effective.headers)) =>
    /\ pc = "done"
    /\ outcome.kind = "rejected"
    /\ outcome.error # ""
    /\ fetches = 0
    /\ ~req.built
    /\ respLog = <<>>

C10_Witness ==
  /\ pc = "done"
  /\ StringifyThrows(Effective.body)
  /\ DeclaresJson(Effective.headers)
  /\ outcome.error = "Error: body must be json stringify"

\* The value a headers mapping holds under the exact name k; "" when none.
HeaderNames(h) == {h.kv[i][1] : i \in 1..Len(h.kv)}
HeaderValue(h, k) ==
  IF k \in HeaderNames(h) THEN h.kv[CHOOSE i \in 1..Len(h.kv) : h.kv[i][1] = k][2] ELSE ""

\* The method a verb method sets; "" for request, which sets none.
VerbMethod(verb) ==
  CASE verb = "get" -> "GET" [] verb = "post" -> "POST" [] verb = "head" -> "HEAD"
    [] verb = "options" -> "OPTIONS" [] OTHER -> ""

\* The keys of a params mapping, and the entry it holds under the key k.
ParamKeys(p) == IF p.shape = "record" THEN {p.ents[i].k : i \in 1..Len(p.ents)} ELSE {}
ParamEntry(p, k) == p.ents[CHOOSE i \in 1..Len(p.ents) : p.ents[i].k = k]

C12_RemoveEventListener ==
  LET e == lastOp.e
      was == lastOp.before
  IN /\ lastOp.op \in {"remove", "clear"} =>
          \A other \in EventNames \ {e} :
            events[other] = was[other] /\ (other \in allocated <=> other \in lastOp.had)
     /\ lastOp.op = "remove" =>
          /\ events[e] = SelectSeq(was[e], LAMBDA x : x # lastOp.l)
          /\ \A i \in 1..Len(events[e]) : events[e][i] # lastOp.l
          /\ e \in allocated <=> e \in lastOp.had
          /\ (\A i \in 1..Len(was[e]) : was[e][i] # lastOp.l) => events[e] = was[e]
     /\ lastOp.op = "clear" => NoListeners(e) /\ events[e] = <<>>

\* Two occurrences of a listener were removed from among two others.
C12_Witness ==
  /\ lastOp.op = "remove"
  /\ lastOp.l = "same"
  /\ lastOp.before[lastOp.e] = <<"throw", "same", "void", "same">>
  /\ events[lastOp.e] = <<"throw", "void">>

\* The "request" dispatch of the call has returned.
RequestDispatched == pc \in {"build", "built", "fetch", "respWait", "done"}

\* The listener calls of log are the listeners of list, one call each, in
\* order, and every call has settled.
CalledAll(log, list) ==
  /\ Len(log) = Len(list)
  /\ \A i \in 1..Len(log) : log[i].l = list[i] /\ log[i].settled

\* C13: a dispatch in which listeners throw or reject still calls every
\* listener of the event, those after the failing ones included, and
\* resolves: the call, which settles as its "response" dispatch does,
\* resolves.
C13_FailureNotPropagated ==
  /\ (RequestDispatched /\ \E i \in 1..Len(reqLog) : reqLog[i].ret = "throw") =>
       CalledAll(reqLog, events["request"])
  /\ (DoneWithResponse /\ \E i \in 1..Len(respLog) : respLog[i].ret = "throw") =>
       /\ CalledAll(respLog, events["response"])
       /\ outcome.kind = "resolved"

\* A listener threw, a later one's promise rejected, and the listener after
\* both was called; the call resolved.
C13_Witness ==
  /\ DoneWithResponse
  /\ Len(respLog) = 4
  /\ respLog[1].l = "throw"
  /\ respLog[2].ret = "text"
  /\ respLog[3].l = "new" /\ respLog[3].ret = "throw"
  /\ respLog[4].l = "same" /\ respLog[4].settled
  /\ outcome.kind = "resolved"

\* The value a dispatch resolves to when each failing listener call of log
\* counts as having returned the value before it, res at first.
RECURSIVE Transparent(_, _)
Transparent(log, res) ==
  IF log = <<>> THEN res
  ELSE LET e == Head(log)
       IN Transparent(Tail(log),
            IF e.ret = "throw" THEN res
            ELSE IF e.ret = "obj" THEN Settle(res, e.ret, e.output, "")
            ELSE IF e.ret = "text" THEN Settle(res, e.ret, NullArg, e.text)
            ELSE Settle(res, e.ret, NullArg, ""))

\* C14: a dispatch in which listeners fail resolves to what it would resolve
\* to had each of them returned the value before it, which for the first
\* listener is the first argument of the dispatch; when every listener
\* fails, that is the first argument. (Stated of the listeners that return
\* a value or fail; one that returns nothing is C3's matter.)
C14_FailureTransparent ==
  /\ (/\ pc = "build"
      /\ \E i \in 1..Len(reqLog) : reqLog[i].ret = "throw"
      /\ \A i \in 1..Len(reqLog) : reqLog[i].l # "void") =>
       result = Transparent(reqLog, FirstArgument)
  /\ (/\ DoneWithResponse
      /\ \E i \in 1..Len(respLog) : respLog[i].ret = "throw"
      /\ \A i \in 1..Len(respLog) : respLog[i].l # "void") =>
       outcome = Resolved(Transparent(respLog, FirstArgument))

\* The value a "response" listener call returned: the response it was given,
\* the text of the body, or undefined.
ReturnedValue(e) ==
  CASE e.ret = "arg0" -> FirstArgument
    [] e.ret = "text" -> [tag |-> "text", cfg |-> NullArg, text |-> e.text]
    [] OTHER -> [tag |-> "undefined", cfg |-> NullArg, text |-> ""]

\* C15: with "response" listeners registered and a response received, the
\* call resolves with what the last-registered listener returned.
C15_ChainResult ==
  (DoneWithResponse /\ respLog # <<>> /\ respLog[Len(respLog)].ret # "throw") =>
    /\ respLog[Len(respLog)].l = events["response"][Len(events["response"])]
    /\ outcome = Resolved(ReturnedValue(respLog[Len(respLog)]))

\* s without the separators it ends with, and without those it starts with.
RECURSIVE StripTrailing(_)
StripTrailing(s) ==
  IF s # <<>> /\ s[Len(s)] = "/" THEN StripTrailing(SubSeq(s, 1, Len(s) - 1)) ELSE s

RECURSIVE StripLeading(_)
StripLeading(s) == IF s # <<>> /\ s[1] = "/" THEN StripLeading(Tail(s)) ELSE s

\* C16: the URL of the Request is the base URL and the path joined with
\* exactly one separator between them, whatever separators the base ends
\* with and the path starts with.
C16_OneSeparator ==
  (pc = "fetch" /\ req.built) =>
    req.url = StripTrailing(baseURL) \o <<"/">> \o StripLeading(Effective.url)

\* The pieces of s between the occurrences of c.
RECURSIVE SplitOn(_, _, _)
SplitOn(s, c, piece) ==
  IF s = <<>> THEN <<piece>>
  ELSE IF Head(s) = c THEN <<piece>> \o SplitOn(Tail(s), c, <<>>)
  ELSE SplitOn(Tail(s), c, Append(piece, Head(s)))

\* The name=value pairs of a query string, each <<name, value>>.
QueryPairs(search) ==
  IF search = <<>> THEN {}
  ELSE LET parts == SplitOn(search, "&", <<>>)
       IN {LET nv == SplitOn(parts[i], "=", <<>>)
           IN <<nv[1], IF Len(nv) >= 2 THEN nv[2] ELSE <<>> >> : i \in 1..Len(parts)}

\* C17: with query parameters given as a mapping, the query string of the
\* Request has a pair for each key whose value is present, with that value,
\* and none for a key whose value is undefined.
C17_UndefinedOmitted ==
  (pc = "fetch" /\ req.built /\ Effective.params.shape = "record") =>
    LET ents == Effective.params.ents
    IN /\ \A i \in 1..Len(ents) :
            IF ents[i].def THEN <<ents[i].k, ents[i].v>> \in QueryPairs(req.search)
            ELSE \A q \in QueryPairs(req.search) : q[1] # ents[i].k
       /\ \A q \in QueryPairs(req.search) : \E i \in 1..Len(ents) : q[1] = ents[i].k

\* A Request was built from {a: "1", b: undefined}: its query string is a=1.
C17_Witness ==
  /\ pc = "fetch"
  /\ req.built
  /\ call.options.params = PartialRecord(2, {2})
  /\ req.search = <<"a", "=", "1">>

\* C18: a dispatch of an event without listeners, none registered or all
\* removed, calls nothing and resolves with its first argument as it was
\* given: the merged configuration for "request", the response, unread, for
\* "response".
C18_EmptyDispatch ==
  /\ (pc = "build" /\ NoListeners("request")) =>
       /\ reqLog = <<>>
       /\ result.tag = "arg0"
       /\ reqArg = WithUrl(merged, call.url)
  /\ (DoneWithResponse /\ NoListeners("response")) =>
       /\ respLog = <<>>
       /\ outcome.kind = "resolved" /\ outcome.tag = "arg0"
       /\ ~resp.bodyUsed

\* "request" was dispatched on the empty array left by removing every
\* listener that had been registered.
C18_Witness ==
  /\ pc = "build"
  /\ "request" \in allocated
  /\ events["request"] = <<>>
  /\ reqLog = <<>>
  /\ result.tag = "arg0"

\* C19: addEventListener puts the listener after those the event has,
\* whether or not it is among them, and a dispatch calls the listeners of
\* its event in that order, one call for each occurrence.
C19_RegistrationOrder ==
  /\ lastOp.op = "add" =>
       /\ events[lastOp.e] = Append(lastOp.before[lastOp.e], lastOp.l)
       /\ \A other \in EventNames \ {lastOp.e} : events[other] = lastOp.before[other]
  /\ RequestDispatched => CalledAll(reqLog, events["request"])
  /\ DoneWithResponse => CalledAll(respLog, events["response"])

\* A listener registered twice, with another between, was called twice, the
\* other between.
C19_Witness ==
  /\ RequestDispatched
  /\ events["request"] = <<"same", "new", "same">>
  /\ Len(reqLog) = 3
  /\ reqLog[1].l = "same" /\ reqLog[2].l = "new" /\ reqLog[3].l = "same"

\* Of the listener calls of log, only the last may be pending.
Sequential(log) == \A i \in 1..Len(log) : ~log[i].settled => i = Len(log)
LastPending(log) == log # <<>> /\ ~log[Len(log)].settled

\* C20: within a dispatch a listener is called only when the call of the
\* listener before it has settled, whether it returned a value or a promise
\* or failed: at most one listener call is pending, the last made, and only
\* while the dispatch is in progress.
C20_OneAtATime ==
  /\ Sequential(reqLog)
  /\ Sequential(respLog)
  /\ LastPending(reqLog) <=> pc = "reqWait"
  /\ LastPending(respLog) <=> pc = "respWait"

\* The third listener of a dispatch is pending; the second, which returned
\* the promise of resp.text(), and the first, which threw, have settled.
C20_Witness ==
  /\ pc = "respWait"
  /\ Len(respLog) = 3
  /\ respLog[1].l = "throw" /\ respLog[1].settled
  /\ respLog[2].ret = "text" /\ respLog[2].settled
  /\ ~respLog[3].settled

\* C21: a call builds, sends, receives and transforms once each, in that
\* order: fetch is called at most once, and only when every "request"
\* listener has settled and the Request is built; there is no response, and
\* no "response" listener call, before fetch was called; a "response"
\* listener is called only with a response received and no "request"
\* listener pending; and the call resolves only after its fetch.
C21_PhasesInOrder ==
  /\ fetches <= 1
  /\ fetches = 1 =>
       /\ pc \in {"fetch", "respWait", "done"}
       /\ req.built
       /\ CalledAll(reqLog, events["request"])
  /\ pc \in {"idle", "reqWait", "build", "built"} =>
       fetches = 0 /\ resp.status = 0 /\ respLog = <<>>
  /\ pc = "built" => req.built /\ ~LastPending(reqLog)
  /\ pc = "fetch" => resp.status = 0 /\ respLog = <<>>
  /\ respLog # <<>> => resp.status # 0 /\ fetches = 1 /\ ~LastPending(reqLog)
  /\ outcome.kind = "resolved" => pc = "done" /\ fetches = 1 /\ resp.status # 0

\* A call with a listener on each event went through the four phases.
C21_Witness ==
  /\ pc = "done"
  /\ Len(reqLog) = 1 /\ reqLog[1].settled
  /\ fetches = 1
  /\ resp.status = 200
  /\ Len(respLog) = 1 /\ respLog[1].settled
  /\ outcome.kind = "resolved"

\* C24: the configuration given to the "response" listeners is the one the
\* Request of the call was built from: its url, method and headers are those
\* of the Request sent.
C24_FinalConfigToResponse ==
  \A i \in 1..Len(respLog) :
    LET cfg == respLog[i].cfg
    IN /\ req.url = concatURL(baseURL, cfg.url)
       /\ req.method = IF cfg.method = "" THEN "GET" ELSE cfg.method
       /\ req.headers = cfg.headers

\* C26: a registration or removal on one event name leaves the listeners of
\* the other event name as they were, and the listeners a dispatch calls are
\* those of its own event, in their order.
C26_OtherEventUntouched ==
  /\ lastOp.op # "none" =>
       \A other \in EventNames \ {lastOp.e} :
         /\ events[other] = lastOp.before[other]
         /\ other \in allocated <=> other \in lastOp.had
  /\ \A i \in 1..Len(reqLog) :
       i <= Len(events["request"]) /\ reqLog[i].l = events["request"][i]
  /\ \A i \in 1..Len(respLog) :
       i <= Len(events["response"]) /\ respLog[i].l = events["response"][i]

\* Both "request" listeners were removed; the two "response" listeners are
\* as they were.
C26_Witness ==
  /\ lastOp.op = "clear"
  /\ lastOp.e = "request"
  /\ Len(lastOp.before["request"]) = 2
  /\ events["request"] = <<>>
  /\ events["response"] = <<"throw", "void">>
  /\ lastOp.before["response"] = <<"throw", "void">>

\* The listener calls log of a "request" dispatch that started with the
\* listeners start: at most those, in their order.
CallsWithin(log, start) ==
  \A i \in 1..Len(log) : i <= Len(start) /\ log[i].l = start[i]

\* Every listener that was registered when the dispatch started gets its
\* call, whatever is removed meanwhile.
CallsAtLeast(t) ==
  /\ t.pc \in {"reqWait", "build", "built", "fetch"} =>
       \A i \in 1..Len(t.reqLog) : i <= Len(t.atStart) => t.reqLog[i].l = t.atStart[i]
  /\ t.pc \in {"build", "built", "fetch"} => Len(t.reqLog) >= Len(t.atStart)

C23_RemovalNotObserved == CallsAtLeast(ThisCall) /\ CallsAtLeast(otherCall)

\* C23: the listeners of a dispatch are a snapshot taken when it starts: a
\* listener added or removed while the dispatch is in flight changes neither
\* which listeners it calls nor how many; it calls exactly the listeners
\* registered when it started.
C23_SnapshotAtStart ==
  /\ pc \in {"reqWait", "build", "built", "fetch"} => CallsWithin(reqLog, atStart)
  /\ pc \in {"build", "built", "fetch"} => Len(reqLog) = Len(atStart)
  /\ otherCall.pc \in {"reqWait", "build", "built", "fetch"} =>
       CallsWithin(otherCall.reqLog, otherCall.atStart)
  /\ otherCall.pc \in {"build", "built", "fetch"} =>
       Len(otherCall.reqLog) = Len(otherCall.atStart)

\* C22 as stated: never two "request" listeners in progress at a time, also
\* over the calls made concurrently on one client: while a "request"
\* listener of one call is suspended, none of another call is started.
C22_OneListenerOverall == ~(LastPending(reqLog) /\ LastPending(otherCall.reqLog))

\* At most one listener call of the call t is pending, the last made, and
\* one is pending exactly while the "request" dispatch of t is suspended.
OnePending(t) ==
  /\ Sequential(t.reqLog)
  /\ LastPending(t.reqLog) <=> t.pc = "reqWait"
  /\ t.pc = "reqWait" => t.idx = Len(t.reqLog) /\ t.idx <= Len(t.dlist)

\* C22, amended: each call has at most one "request" listener in progress,
\* the dispatch of a call starting a listener only when the one before it
\* has settled; the calls made concurrently on one client are not
\* serialised, a listener of one being started while a listener of another
\* is suspended.
C22_OnePerCall == OnePending(ThisCall) /\ OnePending(otherCall)

C22_Witness ==
  /\ pc = "reqWait" /\ otherCall.pc = "reqWait"
  /\ Len(reqLog) = 2 /\ LastPending(reqLog) /\ reqLog[1].settled
  /\ Len(otherCall.reqLog) = 1 /\ LastPending(otherCall.reqLog)

====
